---------------------------- MODULE Spec2Model ----------------------------
(***************************************************************************)
(* NimbusTasks: the two sqlite tables of storage.py (tasks, completed      *)
(* tasks) and the TaskManagerWidget handlers of ui.py that drive them.     *)
(*                                                                         *)
(* A QDate is its Julian day number (an integer), as in Qt.  A date string *)
(* 'yyyy-MM-dd' is the triple <<yyyy, MM, dd>>: the code only compares     *)
(* date strings for equality and parses them back.                         *)
(***************************************************************************)
EXTENDS Integers, Sequences, FiniteSets, TLC

VARIABLES
    tasks_db,       \* tasks.db, table tasks: [rows, seq]
    completed_db,   \* completed_tasks.db, table completed_tasks: [rows, seq]
    current_date,   \* TaskManagerWidget.current_date (a QDate)
    page,           \* the calendar's shown <<year, month>>
    task_list,      \* the rows of TaskManagerWidget.task_list, top to bottom
    add_enabled,    \* add_btn.isEnabled()
    date_fmt,       \* the calendar's date text formats: QDate -> colour
    running,        \* FALSE once the process has died
    today,          \* what QDate.currentDate() returns now
    last            \* the last call made: its name, its arguments, its fault

vars == <<tasks_db, completed_db, current_date, page, task_list, add_enabled,
          date_fmt, running, today, last>>

ui_vars == <<current_date, page, task_list, add_enabled, date_fmt>>

----------------------------------------------------------------------------
(* Bounds of the model *)

\* the number of rows the two tables insert together in a run
MaxRows == 3

\* the number of midnights that pass in a run
MaxDays == 1


----------------------------------------------------------------------------
(* QDate *)

\* QDate(y, m, d): the Julian day number of a Gregorian date
QDate(y, m, d) ==
    LET a  == (14 - m) \div 12
        yy == y + 4800 - a
        mm == m + 12 * a - 3
    IN  d + ((153 * mm + 2) \div 5) + 365 * yy + (yy \div 4)
          - (yy \div 100) + (yy \div 400) - 32045

\* QDate.toString('yyyy-MM-dd')
toString(qdate) ==
    LET a  == qdate + 32044
        b  == (4 * a + 3) \div 146097
        c  == a - ((146097 * b) \div 4)
        d  == (4 * c + 3) \div 1461
        e  == c - ((1461 * d) \div 4)
        m  == (5 * e + 2) \div 153
    IN  << 100 * b + d - 4800 + (m \div 10),
           m + 3 - 12 * (m \div 10),
           e - ((153 * m + 2) \div 5) + 1 >>

\* toString over the days the model's dates lie in, computed once
DateStrings == [q \in QDate(2024, 5, 1)..QDate(2024, 6, 30) |-> toString(q)]

\* storage.date_to_str
date_to_str(qdate) == DateStrings[qdate]

\* QDate.fromString(s, 'yyyy-MM-dd')
fromString(s) == QDate(s[1], s[2], s[3])

\* QDate.dayOfWeek(): 1 = Monday .. 7 = Sunday
dayOfWeek(qdate) == (qdate % 7) + 1

year(qdate) == date_to_str(qdate)[1]

month(qdate) == date_to_str(qdate)[2]

addDays(qdate, n) == qdate + n

\* QDate.currentDate() when the program is first started: Wednesday 2024-06-05
currentDate == QDate(2024, 6, 5)

\* the dates the user picks in the calendar and in the dialog's date edits
CalendarDates ==
    { QDate(2024, 5, 31), QDate(2024, 6, 3), QDate(2024, 6, 5), QDate(2024, 6, 7) }

day_name_map == << "Mon", "Tue", "Wed", "Thu", "Fri", "Sat", "Sun" >>

MWF == {"Mon", "Wed", "Fri"}

\* what the user sets in the recurrence dialog, <<start, end, days>>:
\* a Monday to Sunday week; a range from a past Friday to a coming Friday;
\* a start after the end, the start's own weekday checked; the dialog's
\* default range with every day unchecked
DialogChoices ==
    { <<QDate(2024, 6, 3), QDate(2024, 6, 9), MWF>>,
      <<QDate(2024, 5, 31), QDate(2024, 6, 7), {"Fri"}>>,
      <<QDate(2024, 6, 7), QDate(2024, 6, 3), MWF>>,
      <<QDate(2024, 6, 7), QDate(2024, 5, 31), {"Fri"}>>,
      <<currentDate, currentDate, {}>> }

\* the days the model's records lie on
ModelDays == QDate(2024, 5, 31)..QDate(2024, 6, 9)

----------------------------------------------------------------------------
(* sqlite tables: id INTEGER PRIMARY KEY AUTOINCREMENT, date TEXT, text TEXT *)

EmptyTable == [rows |-> << >>, seq |-> 0]

\* INSERT INTO t (date, text) VALUES (?, ?): AUTOINCREMENT never reuses an id
InsertRowReusingId(t, date_str, text) ==
    [rows |-> Append(t.rows, [id |-> Len(t.rows) + 1, date |-> date_str, text |-> text]),
     seq  |-> t.seq + 1]

InsertRow(t, date_str, text) ==
    [rows |-> Append(t.rows, [id |-> t.seq + 1, date |-> date_str, text |-> text]),
     seq  |-> t.seq + 1]

\* DELETE FROM t WHERE id = ?: no row is no error
DeleteRow(t, task_id) ==
    [rows |-> SelectSeq(t.rows, LAMBDA r : r.id # task_id), seq |-> t.seq]

\* SELECT id, text FROM t WHERE date = ?
SelectIdText(t, date_str) ==
    LET hit == SelectSeq(t.rows, LAMBDA r : r.date = date_str)
    IN  [i \in 1..Len(hit) |-> [id |-> hit[i].id, text |-> hit[i].text]]

\* executemany('INSERT ...', entries), one transaction
RECURSIVE InsertMany(_, _)
InsertMany(t, entries) ==
    IF entries = << >> THEN t
    ELSE InsertMany(InsertRow(t, Head(entries)[1], Head(entries)[2]), Tail(entries))

\* the number of rows of table t with this date and text
Count(t, date_str, text) ==
    Cardinality({ i \in 1..Len(t.rows) :
                    t.rows[i].date = date_str /\ t.rows[i].text = text })

\* the ids of the rows of table t
Ids(t) == { t.rows[i].id : i \in 1..Len(t.rows) }

\* whether table t holds the row (task_id, date_str, text)
Holds(t, task_id, date_str, text) ==
    \E i \in 1..Len(t.rows) :
        t.rows[i] = [id |-> task_id, date |-> date_str, text |-> text]

DB == [tasks |-> tasks_db, completed |-> completed_db]

----------------------------------------------------------------------------
(* storage.py: each function maps the two tables to the two tables *)

add_task_to_db_twice(db, date_str, text) ==
    [db EXCEPT !.tasks = InsertRow(InsertRow(@, date_str, text), date_str, text)]

add_task_to_db(db, date_str, text) ==
    [db EXCEPT !.tasks = InsertRow(@, date_str, text)]

add_recurring_tasks_to_db(db, task_entries) ==
    [db EXCEPT !.tasks = InsertMany(@, task_entries)]

get_tasks_for_date(db, date_str) == SelectIdText(db.tasks, date_str)

get_completed_tasks_for_date(db, date_str) == SelectIdText(db.completed, date_str)

complete_task_delete_first(db, task_id, date_str, text) ==
    [db EXCEPT !.tasks = DeleteRow(@, task_id)]

\* the first commit of complete_task: the insert into completed_tasks
complete_task_insert(db, task_id, date_str, text) ==
    [db EXCEPT !.completed = InsertRow(@, date_str, text)]

\* the delete made on the date and text: every row with them goes
complete_task_delete_by_text(db, task_id, date_str, text) ==
    [db EXCEPT !.tasks.rows =
        SelectSeq(@, LAMBDA r : ~(r.date = date_str /\ r.text = text))]

\* the second commit of complete_task: the delete from tasks
complete_task_delete(db, task_id, date_str, text) ==
    [db EXCEPT !.tasks = DeleteRow(@, task_id)]

complete_task(db, task_id, date_str, text) ==
    complete_task_delete(complete_task_insert(db, task_id, date_str, text),
                         task_id, date_str, text)

\* the first commit of uncomplete_task: the insert into tasks unless present
uncomplete_task_insert_always(db, task_id, date_str, text) ==
    [db EXCEPT !.tasks = InsertRow(@, date_str, text)]

\* the insert made unless tasks holds the id, whatever its date and text
uncomplete_task_insert_unless_id(db, task_id, date_str, text) ==
    IF task_id \notin Ids(db.tasks)
    THEN [db EXCEPT !.tasks = InsertRow(@, date_str, text)]
    ELSE db

uncomplete_task_insert(db, task_id, date_str, text) ==
    LET exists == \E i \in 1..Len(db.tasks.rows) :
                      /\ db.tasks.rows[i].date = date_str
                      /\ db.tasks.rows[i].text = text
    IN  IF ~exists THEN [db EXCEPT !.tasks = InsertRow(@, date_str, text)]
        ELSE db

uncomplete_task_delete_from_tasks(db, task_id, date_str, text) ==
    [db EXCEPT !.tasks = DeleteRow(@, task_id)]

\* the second commit of uncomplete_task: the delete from completed_tasks
uncomplete_task_delete(db, task_id, date_str, text) ==
    [db EXCEPT !.completed = DeleteRow(@, task_id)]

uncomplete_task(db, task_id, date_str, text) ==
    uncomplete_task_delete(uncomplete_task_insert(db, task_id, date_str, text),
                           task_id, date_str, text)

db_delete_task_up_to(db, task_id) ==
    [db EXCEPT !.tasks.rows = SelectSeq(@, LAMBDA r : r.id > task_id)]

db_delete_task(db, task_id) ==
    [db EXCEPT !.tasks = DeleteRow(@, task_id)]

delete_completed_task(db, task_id) ==
    [db EXCEPT !.completed = DeleteRow(@, task_id)]

get_all_task_dates(db) ==
    { db.tasks.rows[i].date : i \in 1..Len(db.tasks.rows) }
        \cup { db.completed.rows[i].date : i \in 1..Len(db.completed.rows) }

----------------------------------------------------------------------------
(* storage.py when sqlite raises: no function catches, so the exception     *)
(* leaves the function at the statement that raised; what was committed     *)
(* stays, what was not is rolled back when the connection is dropped        *)

\* the statements of a function with one table that can raise
Steps1 == {"connect", "execute", "commit"}

\* the statements of a move that can raise: on its first table, on its second
Steps2 == {"first", "second"}

add_task_to_db_failing(db, date_str, text, step) == db

\* executemany commits each row by itself: the rows before entry k stay
add_recurring_tasks_to_db_autocommit(db, task_entries, k) ==
    [db EXCEPT !.tasks = InsertMany(@, SubSeq(task_entries, 1, k - 1))]

\* executemany raises at entry k (k = Len + 1: the commit raises): the rows
\* before k were inserted in the open transaction, which is never committed
add_recurring_tasks_to_db_failing(db, task_entries, k) == db

\* complete_task raising on completed_tasks.db (nothing is committed) or on
\* tasks.db (the insert into completed_tasks is committed already)
complete_task_failing(db, task_id, date_str, text, step) ==
    IF step = "first" THEN db
    ELSE complete_task_insert(db, task_id, date_str, text)

\* uncomplete_task raising on tasks.db (nothing is committed) or on
\* completed_tasks.db (the insert into tasks, if made, is committed already)
uncomplete_task_failing(db, task_id, date_str, text, step) ==
    IF step = "first" THEN db
    ELSE uncomplete_task_insert(db, task_id, date_str, text)

db_delete_task_failing(db, task_id, step) == db

delete_completed_task_failing(db, task_id, step) == db

----------------------------------------------------------------------------
(* Task texts: a text is the sequence of its characters *)

\* what the user types into the dialog's line edit
TypedTexts == { <<"a">>, <<" ", "b", " ">>, << >>, <<" ">> }

\* str.strip(): without its leading and trailing whitespace
RECURSIVE lstrip(_)
lstrip(s) == IF s # << >> /\ Head(s) = " " THEN lstrip(Tail(s)) ELSE s

RECURSIVE rstrip(_)
rstrip(s) ==
    IF s # << >> /\ s[Len(s)] = " " THEN rstrip(SubSeq(s, 1, Len(s) - 1)) ELSE s

strip(s) == rstrip(lstrip(s))

\* AddTaskDialog.get_task()
get_task(typed) == strip(typed)

\* the texts that reach add_task and the tables
Texts == { get_task(t) : t \in TypedTexts } \ { << >> }

----------------------------------------------------------------------------
(* ui.py: TaskManagerWidget *)

\* recurring_details = None: add_task's default
None == [none |-> TRUE]

\* AddTaskDialog.get_recurring_details(): the dates leave the dialog as strings
get_recurring_details(start, end, days) ==
    [start_date |-> date_to_str(start), end_date |-> date_to_str(end), days |-> days]

\* the entries when the loop runs from the later date back to the earlier
RECURSIVE task_entries_either_way(_, _, _, _)
task_entries_either_way(d, end, days, text) ==
    IF d <= end
    THEN (IF day_name_map[dayOfWeek(d)] \in days
          THEN << <<date_to_str(d), text>> >> ELSE << >>)
         \o task_entries_either_way(addDays(d, 1), end, days, text)
    ELSE IF d > end + 1 THEN task_entries_either_way(end, d, days, text)
    ELSE << >>

\* the entries when the loop stops before the end date
RECURSIVE task_entries_before_end(_, _, _, _)
task_entries_before_end(d, end, days, text) ==
    IF d < end
    THEN (IF day_name_map[dayOfWeek(d)] \in days
          THEN << <<date_to_str(d), text>> >> ELSE << >>)
         \o task_entries_before_end(addDays(d, 1), end, days, text)
    ELSE << >>

\* the while loop of add_task: the entries from d to end, both included
RECURSIVE task_entries(_, _, _, _)
task_entries(d, end, days, text) ==
    IF d <= end
    THEN (IF day_name_map[dayOfWeek(d)] \in days
          THEN << <<date_to_str(d), text>> >> ELSE << >>)
         \o task_entries(addDays(d, 1), end, days, text)
    ELSE << >>

\* add_task up to its reload: the tables after it
add_task(db, date, text, recurring_details) ==
    IF recurring_details = None
    THEN add_task_to_db(db, date_to_str(date), text)
    ELSE add_recurring_tasks_to_db(db,
             task_entries(fromString(recurring_details.start_date),
                          fromString(recurring_details.end_date),
                          recurring_details.days, text))

\* the widget when load_tasks_for_date disables nothing on a past date
TaskWidget_ignoring_past(task, is_completed, is_past) ==
    [text             |-> task.text,
     task_id          |-> task.id,
     is_completed     |-> is_completed,
     checkbox_enabled |-> TRUE,
     delete_enabled   |-> ~is_completed]

\* the widget when load_tasks_for_date disables only the checkbox on a past
\* date
TaskWidget_past_deletable(task, is_completed, is_past) ==
    [text             |-> task.text,
     task_id          |-> task.id,
     is_completed     |-> is_completed,
     checkbox_enabled |-> IF is_completed THEN TRUE ELSE ~is_past,
     delete_enabled   |-> ~is_completed]

\* the widget when load_tasks_for_date leaves every delete button enabled
TaskWidget_delete_enabled(task, is_completed, is_past) ==
    [text             |-> task.text,
     task_id          |-> task.id,
     is_completed     |-> is_completed,
     checkbox_enabled |-> IF is_completed THEN TRUE ELSE ~is_past,
     delete_enabled   |-> TRUE]

\* _add_task_widget and the enabling load_tasks_for_date does on its result
TaskWidget(task, is_completed, is_past) ==
    [text             |-> task.text,
     task_id          |-> task.id,
     is_completed     |-> is_completed,
     checkbox_enabled |-> IF is_completed THEN TRUE ELSE ~is_past,
     delete_enabled   |-> IF is_completed THEN FALSE ELSE ~is_past]

\* the rows of task_list when the completed tasks are shown first
load_tasks_for_date_completed_first(db, qdate) ==
    LET date_str        == date_to_str(qdate)
        tasks           == get_tasks_for_date(db, date_str)
        completed_tasks == get_completed_tasks_for_date(db, date_str)
        is_past         == qdate < today
    IN  [i \in 1..Len(completed_tasks) |-> TaskWidget(completed_tasks[i], TRUE, is_past)]
        \o [i \in 1..Len(tasks) |-> TaskWidget(tasks[i], FALSE, is_past)]

\* load_tasks_for_date: the rows of task_list
load_tasks_for_date(db, qdate) ==
    LET date_str        == date_to_str(qdate)
        tasks           == get_tasks_for_date(db, date_str)
        completed_tasks == get_completed_tasks_for_date(db, date_str)
        is_past         == qdate < today
    IN  [i \in 1..Len(tasks) |-> TaskWidget(tasks[i], FALSE, is_past)]
        \o [i \in 1..Len(completed_tasks) |-> TaskWidget(completed_tasks[i], TRUE, is_past)]

\* load_tasks_for_date: add_btn.setEnabled(not is_past)
add_btn_enabled(qdate) == ~(qdate < today)

\* the colour update_calendar_task_highlights gives a date with tasks,
\* "skip" where the loop continues without setting a format
highlight(db, qdate, selected) ==
    IF year(qdate) # year(selected) \/ month(qdate) # month(selected) THEN "skip"
    ELSE IF qdate = today THEN "skip"
    ELSE IF get_tasks_for_date(db, date_to_str(qdate)) # << >>
         THEN (IF qdate < today THEN "overdue" ELSE "skip")
    ELSE IF get_completed_tasks_for_date(db, date_to_str(qdate)) # << >>
         THEN "all_done"
    ELSE "skip"

\* update_calendar_task_highlights: the calendar's date formats after it;
\* selected is calendar.selectedDate()
update_calendar_task_highlights(db, selected) ==
    LET all_dates == { fromString(s) : s \in get_all_task_dates(db) }
        coloured  == { q \in all_dates : highlight(db, q, selected) # "skip" }
    IN  [q \in coloured \cup {today} |->
            IF q = today THEN "today" ELSE highlight(db, q, selected)]

\* the format the calendar shows for a date
dateTextFormat(qdate) ==
    IF qdate \in DOMAIN date_fmt THEN date_fmt[qdate] ELSE "none"

----------------------------------------------------------------------------
(* The running program: TaskManagerWidget's handlers *)

\* the tables stay within the rows the model inserts
Fits(db) == db.tasks.seq + db.completed.seq <= MaxRows

PageOf(qdate) == <<year(qdate), month(qdate)>>

Call(op, args, fault) == [op |-> op, args |-> args, fault |-> fault]

\* the tables become db; then load_tasks_for_date(current_date) and
\* update_calendar_task_highlights()
Reload(db, qdate) ==
    /\ tasks_db' = db.tasks
    /\ completed_db' = db.completed
    /\ current_date' = qdate
    /\ task_list' = load_tasks_for_date(db, qdate)
    /\ add_enabled' = add_btn_enabled(qdate)
    /\ date_fmt' = update_calendar_task_highlights(db, qdate)
    /\ running' = TRUE
    /\ today' = today

\* the process dies with the tables as db: nothing of the widget is left
Die(db) ==
    /\ tasks_db' = db.tasks
    /\ completed_db' = db.completed
    /\ current_date' = today
    /\ page' = PageOf(today)
    /\ task_list' = << >>
    /\ add_enabled' = FALSE
    /\ date_fmt' = << >>
    /\ running' = FALSE
    /\ today' = today

\* TaskManagerWidget.__init__ on tables db
Construct(db) ==
    /\ Reload(db, today)
    /\ page' = PageOf(today)

Init ==
    /\ today = currentDate
    /\ tasks_db = EmptyTable
    /\ completed_db = EmptyTable
    /\ current_date = currentDate
    /\ page = PageOf(currentDate)
    /\ task_list = load_tasks_for_date([tasks |-> EmptyTable, completed |-> EmptyTable],
                                       currentDate)
    /\ add_enabled = add_btn_enabled(currentDate)
    /\ date_fmt = update_calendar_task_highlights(
                      [tasks |-> EmptyTable, completed |-> EmptyTable], currentDate)
    /\ running = TRUE
    /\ last = [op |-> "init", args |-> << >>, fault |-> "none"]

\* main started again after the process ended, in a crash or by closeEvent:
\* the widget is constructed on the tables as they are
Restart ==
    /\ ~running
    /\ Construct(DB)
    /\ last' = Call("restart", << >>, "none")

\* on_date_changed when it sets current_date and reloads nothing
SelectDate_keeping_list(qdate) ==
    /\ running
    /\ qdate # current_date
    /\ current_date' = qdate
    /\ page' = PageOf(qdate)
    /\ last' = Call("on_date_changed", << >>, "none")
    /\ UNCHANGED <<tasks_db, completed_db, task_list, add_enabled, date_fmt,
                   running, today>>

\* the user picks another date in the calendar: on_date_changed
SelectDate(qdate) ==
    /\ running
    /\ qdate # current_date
    /\ Reload(DB, qdate)
    /\ page' = PageOf(qdate)
    /\ last' = Call("on_date_changed", << >>, "none")

\* the user turns the calendar to another month; no handler is connected
ShowPage(p) ==
    /\ running
    /\ p # page
    /\ page' = p
    /\ last' = Call("page_changed", << >>, "none")
    /\ UNCHANGED <<tasks_db, completed_db, current_date, task_list, add_enabled,
                   date_fmt, running, today>>

\* show_add_task_dialog accepted without recurrence: add_task(text)
AddSingle(typed) ==
    /\ running
    /\ add_enabled
    /\ get_task(typed) # << >>
    /\ LET text == get_task(typed)
           db   == add_task(DB, current_date, text, None)
       IN  /\ Fits(db)
           /\ Reload(db, current_date)
           /\ last' = Call("add_task", [recurring_details |-> None], "none")
    /\ UNCHANGED page

\* show_add_task_dialog accepted with recurrence: add_task(text, details)
AddRecurring(typed, start, end, days) ==
    /\ running
    /\ add_enabled
    /\ get_task(typed) # << >>
    /\ LET text    == get_task(typed)
           details == get_recurring_details(start, end, days)
           db      == add_task(DB, current_date, text, details)
       IN  /\ Fits(db)
           /\ Reload(db, current_date)
           /\ last' = Call("add_task", [recurring_details |-> details], "none")
    /\ UNCHANGED page

\* the user ticks the checkbox of row i: state_changed_callback, first branch
CheckboxChanged(i) ==
    /\ running
    /\ i \in 1..Len(task_list)
    /\ ~task_list[i].is_completed
    /\ task_list[i].checkbox_enabled
    /\ LET w  == task_list[i]
           db == complete_task(DB, w.task_id, date_to_str(current_date), w.text)
       IN  /\ Fits(db)
           /\ Reload(db, current_date)
           /\ last' = Call("checkbox_changed",
                           [task_id |-> w.task_id,
                            date_str |-> date_to_str(current_date),
                            text |-> w.text], "none")
    /\ UNCHANGED page

\* the same, the process dying between the two commits of complete_task
CheckboxChangedCrash(i) ==
    /\ running
    /\ i \in 1..Len(task_list)
    /\ ~task_list[i].is_completed
    /\ task_list[i].checkbox_enabled
    /\ LET w  == task_list[i]
           db == complete_task_insert(DB, w.task_id, date_to_str(current_date), w.text)
       IN  /\ Fits(db)
           /\ Die(db)
           /\ last' = Call("checkbox_changed",
                           [task_id |-> w.task_id,
                            date_str |-> date_to_str(current_date),
                            text |-> w.text], "crash")

\* the user clicks the tick of completed row i: _on_tick_clicked runs
\* state_changed_callback twice, through set_done's stateChanged and itself
TickClicked(i) ==
    /\ running
    /\ i \in 1..Len(task_list)
    /\ task_list[i].is_completed
    /\ LET w   == task_list[i]
           d   == date_to_str(current_date)
           db1 == uncomplete_task(DB, w.task_id, d, w.text)
           db2 == uncomplete_task(db1, w.task_id, d, w.text)
       IN  /\ Fits(db2)
           /\ Reload(db2, current_date)
           /\ last' = Call("tick_clicked",
                           [task_id |-> w.task_id, date_str |-> d, text |-> w.text],
                           "none")
    /\ UNCHANGED page

\* the same, the process dying between the two commits of the first
\* uncomplete_task
TickClickedCrash(i) ==
    /\ running
    /\ i \in 1..Len(task_list)
    /\ task_list[i].is_completed
    /\ LET w  == task_list[i]
           d  == date_to_str(current_date)
           db == uncomplete_task_insert(DB, w.task_id, d, w.text)
       IN  /\ Fits(db)
           /\ Die(db)
           /\ last' = Call("tick_clicked",
                           [task_id |-> w.task_id, date_str |-> d, text |-> w.text],
                           "crash")

\* the user clicks the delete button of row i: _add_task_widget.delete_task
DeleteClicked(i) ==
    /\ running
    /\ i \in 1..Len(task_list)
    /\ task_list[i].delete_enabled
    /\ LET w  == task_list[i]
           db == IF w.is_completed THEN delete_completed_task(DB, w.task_id)
                 ELSE db_delete_task(DB, w.task_id)
       IN  /\ Reload(db, current_date)
           /\ last' = Call("delete_clicked",
                           [task_id |-> w.task_id, is_completed |-> w.is_completed],
                           "none")
    /\ UNCHANGED page

\* the user clicks the close button: close() runs closeEvent, which quits
\* the application; the process ends with the files as they are
Close ==
    /\ running
    /\ Die(DB)
    /\ last' = Call("closeEvent", << >>, "none")

Pages == { PageOf(q) : q \in CalendarDates }

Next ==
    \/ Restart
    \/ \E q \in CalendarDates : SelectDate(q)
    \/ \E p \in Pages : ShowPage(p)
    \/ \E t \in TypedTexts : AddSingle(t)
    \/ \E t \in TypedTexts, c \in DialogChoices : AddRecurring(t, c[1], c[2], c[3])
    \/ \E i \in 1..MaxRows : CheckboxChanged(i)
    \/ \E i \in 1..MaxRows : CheckboxChangedCrash(i)
    \/ \E i \in 1..MaxRows : TickClicked(i)
    \/ \E i \in 1..MaxRows : TickClickedCrash(i)
    \/ \E i \in 1..MaxRows : DeleteClicked(i)
    \/ Close

Spec == Init /\ [][Next]_vars

\* the day ends while the program is running or stopped: the next call of
\* QDate.currentDate() returns the next day; no handler runs on it
Midnight ==
    /\ today < currentDate + MaxDays
    /\ today' = addDays(today, 1)
    /\ last' = Call("midnight", << >>, "none")
    /\ UNCHANGED <<tasks_db, completed_db, ui_vars, running>>

ClockNext == Next \/ Midnight

\* the program run over days
ClockSpec == Init /\ [][ClockNext]_vars

----------------------------------------------------------------------------
(* storage.py called directly, with any arguments: the Task Store's contract. *)
(* The widget stays as constructed.                                          *)

\* the date strings a caller passes: today and a later day
StoreDates == { date_to_str(currentDate), date_to_str(QDate(2024, 6, 7)) }

\* the ids a caller passes: of rows that exist, that existed, that never did
StoreIds == 1..(MaxRows + 1)

\* the entry lists a caller passes to add_recurring_tasks_to_db
StoreBatches ==
    { << >>,
      << <<date_to_str(currentDate), <<"a">> >> >>,
      << <<date_to_str(currentDate), <<"a">> >>, <<date_to_str(currentDate), <<"a">> >> >>,
      << <<date_to_str(QDate(2024, 6, 7)), <<"b">> >>, <<date_to_str(currentDate), <<"a">> >> >> }

\* a call of a move: its arguments, what the tables held before it, and
\* whether it takes back the call before it: that call was a complete_task
\* that returned and moved an Active record with this date_str and text, and
\* task_id is the id the record was given in completed_tasks
MoveCall(op, source, task_id, date_str, text) ==
    [op     |-> op,
     args   |-> [task_id |-> task_id, date_str |-> date_str, text |-> text],
     fault  |-> "none",
     before |-> [active    |-> Count(tasks_db, date_str, text),
                 completed |-> Count(completed_db, date_str, text)],
     hit    |-> Holds(source, task_id, date_str, text),
     undoes |-> /\ op = "uncomplete_task"
                /\ last.op = "complete_task"
                /\ last.fault = "none"
                /\ last.hit
                /\ last.args.date_str = date_str
                /\ last.args.text = text
                /\ task_id = completed_db.seq]

\* a call of a delete: its argument, and whether the table held the id
DeleteCall(op, source, task_id) ==
    [op    |-> op,
     args  |-> [task_id |-> task_id],
     fault |-> "none",
     hit   |-> task_id \in Ids(source)]

Store(db) ==
    /\ Fits(db)
    /\ tasks_db' = db.tasks
    /\ completed_db' = db.completed
    /\ UNCHANGED <<ui_vars, running, today>>

CallAdd(date_str, text) ==
    /\ Store(add_task_to_db(DB, date_str, text))
    /\ last' = Call("add_task_to_db", [date_str |-> date_str, text |-> text], "none")

CallAddRecurring(task_entries_) ==
    /\ Store(add_recurring_tasks_to_db(DB, task_entries_))
    /\ last' = Call("add_recurring_tasks_to_db", [task_entries |-> task_entries_], "none")

CallComplete(task_id, date_str, text) ==
    /\ Store(complete_task(DB, task_id, date_str, text))
    /\ last' = MoveCall("complete_task", tasks_db, task_id, date_str, text)

CallUncomplete(task_id, date_str, text) ==
    /\ Store(uncomplete_task(DB, task_id, date_str, text))
    /\ last' = MoveCall("uncomplete_task", completed_db, task_id, date_str, text)

CallDelete(task_id) ==
    /\ Store(db_delete_task(DB, task_id))
    /\ last' = DeleteCall("delete_task", tasks_db, task_id)

CallDeleteCompleted(task_id) ==
    /\ Store(delete_completed_task(DB, task_id))
    /\ last' = DeleteCall("delete_completed_task", completed_db, task_id)

\* the same functions, sqlite raising inside them
CallAddError(date_str, text, step) ==
    /\ Store(add_task_to_db_failing(DB, date_str, text, step))
    /\ last' = Call("add_task_to_db", [step |-> step], "error")

CallAddRecurringError(task_entries_, k) ==
    /\ k \in 1..(Len(task_entries_) + 1)
    /\ Store(add_recurring_tasks_to_db_failing(DB, task_entries_, k))
    /\ last' = Call("add_recurring_tasks_to_db",
                    [task_entries |-> task_entries_, step |-> k], "error")

CallCompleteError(task_id, date_str, text, step) ==
    /\ Store(complete_task_failing(DB, task_id, date_str, text, step))
    /\ last' = Call("complete_task", [step |-> step], "error")

CallUncompleteError(task_id, date_str, text, step) ==
    /\ Store(uncomplete_task_failing(DB, task_id, date_str, text, step))
    /\ last' = Call("uncomplete_task", [step |-> step], "error")

CallDeleteError(task_id, step) ==
    /\ Store(db_delete_task_failing(DB, task_id, step))
    /\ last' = Call("delete_task", [step |-> step], "error")

CallDeleteCompletedError(task_id, step) ==
    /\ Store(delete_completed_task_failing(DB, task_id, step))
    /\ last' = Call("delete_completed_task", [step |-> step], "error")

StoreNext ==
    \/ \E d \in StoreDates, t \in Texts : CallAdd(d, t)
    \/ \E es \in StoreBatches : CallAddRecurring(es)
    \/ \E id \in StoreIds, d \in StoreDates, t \in Texts : CallComplete(id, d, t)
    \/ \E id \in StoreIds, d \in StoreDates, t \in Texts : CallUncomplete(id, d, t)
    \/ \E id \in StoreIds : CallDelete(id)
    \/ \E id \in StoreIds : CallDeleteCompleted(id)
    \/ \E d \in StoreDates, t \in Texts, st \in Steps1 : CallAddError(d, t, st)
    \/ \E es \in StoreBatches, k \in 1..3 : CallAddRecurringError(es, k)
    \/ \E id \in StoreIds, d \in StoreDates, t \in Texts, st \in Steps2 :
          CallCompleteError(id, d, t, st)
    \/ \E id \in StoreIds, d \in StoreDates, t \in Texts, st \in Steps2 :
          CallUncompleteError(id, d, t, st)
    \/ \E id \in StoreIds, st \in Steps1 : CallDeleteError(id, st)
    \/ \E id \in StoreIds, st \in Steps1 : CallDeleteCompletedError(id, st)

StoreSpec == Init /\ [][StoreNext]_vars

----------------------------------------------------------------------------
(* Claims *)

\* the rows of table t on a date, in table order
RowsOn(t, date_str) == SelectSeq(t.rows, LAMBDA r : r.date = date_str)

\* the rows the step appended to the tasks table
NewTasks == SubSeq(tasks_db'.rows, Len(tasks_db.rows) + 1, Len(tasks_db'.rows))

\* the rows of the tasks table before the step are its first rows after it
OldTasksKept == SubSeq(tasks_db'.rows, 1, Len(tasks_db.rows)) = tasks_db.rows

\* C1: add_task(text) without recurrence adds exactly one Active record with
\* that text to the selected date (the number of Active records with that
\* text on that date grows by exactly 1) and leaves the Completed records of
\* that date as they were.
C1_AddTaskAddsOne ==
    [][\A typed \in TypedTexts :
          (last'.op = "add_task" /\ AddSingle(typed)) =>
              LET d == date_to_str(current_date)
                  t == get_task(typed)
              IN  /\ Count(tasks_db', d, t) = Count(tasks_db, d, t) + 1
                  /\ Len(tasks_db'.rows) = Len(tasks_db.rows) + 1
                  /\ RowsOn(completed_db', d) = RowsOn(completed_db, d)]_vars

\* an add_task without recurrence has just added a second Active record with
\* the text of one already there, on a date that has a Completed record
C1_Witness ==
    /\ last.op = "add_task"
    /\ last.args.recurring_details = None
    /\ \E t \in Texts : Count(tasks_db, date_to_str(current_date), t) = 2
    /\ RowsOn(completed_db, date_to_str(current_date)) # << >>

\* C2: add_task with a recurrence creates exactly one new Active record
\* (d, text) for every date d from start_date to end_date, both included,
\* whose weekday name is in days, and no other record; the Monday 2024-06-03
\* to Sunday 2024-06-09 range with Mon, Wed, Fri gives exactly the three
\* records of 2024-06-03, 2024-06-05 and 2024-06-07.
C2_RecurrenceExpansion ==
    [][\A typed \in TypedTexts, c \in DialogChoices :
          (/\ last'.op = "add_task"
           /\ last'.args.recurring_details = get_recurring_details(c[1], c[2], c[3])
           /\ AddRecurring(typed, c[1], c[2], c[3])) =>
              LET t    == get_task(typed)
                  days == { d \in c[1]..c[2] : day_name_map[dayOfWeek(d)] \in c[3] }
              IN  /\ OldTasksKept
                  /\ completed_db' = completed_db
                  /\ \A d \in days :
                        Cardinality({ i \in 1..Len(NewTasks) :
                            /\ NewTasks[i].date = toString(d)
                            /\ NewTasks[i].text = t }) = 1
                  /\ \A i \in 1..Len(NewTasks) :
                        /\ NewTasks[i].text = t
                        /\ \E d \in days : NewTasks[i].date = toString(d)
                  /\ (c = <<QDate(2024, 6, 3), QDate(2024, 6, 9), MWF>> =>
                        [i \in 1..Len(NewTasks) |-> NewTasks[i].date]
                            = << <<2024, 6, 3>>, <<2024, 6, 5>>, <<2024, 6, 7>> >>)]_vars

\* the Monday to Sunday recurrence on Mon, Wed, Fri has just added its three
\* records
C2_Witness ==
    /\ last.op = "add_task"
    /\ last.args.recurring_details =
          [start_date |-> <<2024, 6, 3>>, end_date |-> <<2024, 6, 9>>, days |-> MWF]
    /\ Len(tasks_db.rows) = 3
    /\ \E t \in Texts :
          /\ Count(tasks_db, <<2024, 6, 3>>, t) = 1
          /\ Count(tasks_db, <<2024, 6, 5>>, t) = 1
          /\ Count(tasks_db, <<2024, 6, 7>>, t) = 1

\* C3: add_task with a recurrence whose start_date is after its end_date
\* creates no record in either store and raises no error (the widget goes
\* on to its reload), whatever days are checked.
C3_StartAfterEnd ==
    [][\A typed \in TypedTexts, c \in DialogChoices :
          (/\ c[1] > c[2]
           /\ last'.op = "add_task"
           /\ last'.args.recurring_details = get_recurring_details(c[1], c[2], c[3])
           /\ AddRecurring(typed, c[1], c[2], c[3])) =>
              /\ tasks_db' = tasks_db
              /\ completed_db' = completed_db
              /\ running'
              /\ task_list' = task_list]_vars

\* a recurrence whose start is after its end has just run on tables that
\* hold records
C3_Witness ==
    /\ last.op = "add_task"
    /\ last.args.recurring_details # None
    /\ fromString(last.args.recurring_details.start_date)
          > fromString(last.args.recurring_details.end_date)
    /\ tasks_db.rows # << >>
    /\ completed_db.rows # << >>
    /\ running

\* C4: from a state in which (date, text) is exactly one Active record and
\* no Completed record, complete(id, date, text) followed by
\* uncomplete(new_id, date, text), new_id being the id the record got in the
\* Completed store, ends with exactly one Active record and no Completed
\* record of that (date, text).
C4_RoundTrip ==
    [][(/\ last.op = "complete_task"
        /\ last.fault = "none"
        /\ last'.fault = "none"
        /\ last.hit
        /\ last.before = [active |-> 1, completed |-> 0]
        /\ last'.op = "uncomplete_task"
        /\ last'.args.date_str = last.args.date_str
        /\ last'.args.text = last.args.text
        /\ Holds(completed_db, last'.args.task_id, last.args.date_str, last.args.text)) =>
            /\ Count(tasks_db', last.args.date_str, last.args.text) = 1
            /\ Count(completed_db', last.args.date_str, last.args.text) = 0]_vars

\* a complete_task has moved the only record of its (date, text) from tasks
\* to completed_tasks, and the uncomplete_task called next, with the id the
\* record got there, has just moved it back: it is in tasks under a new id
C4_Witness ==
    /\ last.op = "uncomplete_task"
    /\ last.fault = "none"
    /\ last.undoes
    /\ last.hit
    /\ last.before = [active |-> 0, completed |-> 1]
    /\ Count(tasks_db, last.args.date_str, last.args.text) = 1
    /\ Count(completed_db, last.args.date_str, last.args.text) = 0
    /\ \E i \in 1..Len(tasks_db.rows) :
          /\ tasks_db.rows[i].date = last.args.date_str
          /\ tasks_db.rows[i].text = last.args.text
          /\ tasks_db.rows[i].id = tasks_db.seq

\* C5: uncomplete(id, date, text) called while the Active store holds a
\* record with the same (date, text) leaves the Active store as it was and
\* still removes the Completed record with that id.
C5_UncompleteNoDuplicate ==
    [][(/\ last'.op = "uncomplete_task"
        /\ last'.fault = "none"
        /\ Count(tasks_db, last'.args.date_str, last'.args.text) >= 1) =>
            /\ tasks_db' = tasks_db
            /\ last'.args.task_id \notin Ids(completed_db')
            /\ completed_db'.rows =
                  SelectSeq(completed_db.rows, LAMBDA r : r.id # last'.args.task_id)]_vars

\* an uncomplete has just removed a Completed record whose (date, text) the
\* Active store already held
C5_Witness ==
    /\ last.op = "uncomplete_task"
    /\ last.fault = "none"
    /\ last.hit
    /\ last.before.active >= 1
    /\ Count(tasks_db, last.args.date_str, last.args.text) = last.before.active
    /\ Count(completed_db, last.args.date_str, last.args.text) = last.before.completed - 1

\* C7: delete(id) and delete_completed(id) with an id their store does not
\* hold (deleted before, or never there) leave both stores as they were, so
\* the record counts too; a delete made twice leaves what one leaves.
C7_DeleteAbsent ==
    [][last'.fault = "none" =>
       /\ (last'.op = "delete_task" /\ last'.args.task_id \notin Ids(tasks_db)) =>
            (tasks_db' = tasks_db /\ completed_db' = completed_db)
       /\ (last'.op = "delete_completed_task"
              /\ last'.args.task_id \notin Ids(completed_db)) =>
            (tasks_db' = tasks_db /\ completed_db' = completed_db)
       /\ (last'.op \in {"delete_task", "delete_completed_task"}
              /\ last.op = last'.op /\ last.args = last'.args) =>
            (tasks_db' = tasks_db /\ completed_db' = completed_db)]_vars

\* a delete has just been made of an id that was handed out and deleted
\* before, on a table that holds other records
C7_Witness ==
    /\ last.op = "delete_task"
    /\ last.fault = "none"
    /\ ~last.hit
    /\ last.args.task_id <= tasks_db.seq
    /\ tasks_db.rows # << >>
    /\ completed_db.rows # << >>

\* C8: complete(id, date, text) with an id the Active store does not hold
\* changes neither the Active nor the Completed store.
C8_CompleteAbsent ==
    [][(/\ last'.op = "complete_task"
        /\ last'.fault = "none"
        /\ last'.args.task_id \notin Ids(tasks_db)) =>
            (tasks_db' = tasks_db /\ completed_db' = completed_db)]_vars

\* whether a date has a record in table t
HasRecord(t, qdate) == \E i \in 1..Len(t.rows) : t.rows[i].date = toString(qdate)

\* the highlight C6 gives a date
ClaimedHighlight(qdate) ==
    IF qdate = today THEN "today"
    ELSE IF HasRecord(tasks_db, qdate) /\ qdate < today THEN "overdue"
    ELSE IF HasRecord(tasks_db, qdate) /\ qdate > today THEN "none"
    ELSE IF ~HasRecord(tasks_db, qdate) /\ HasRecord(completed_db, qdate) THEN "all_done"
    ELSE "none"

\* the last handler ended with update_calendar_task_highlights
Recomputed == running /\ last.op \notin {"page_changed", "midnight"}

\* C6: after every highlight recompute, every date d of the visible month
\* (the month the calendar shows) has the highlight: "today" if d is today,
\* whatever its records; else "overdue" if d has an Active record and is
\* before today; else none if d has an Active record and is after today;
\* else "all done" if d has no Active and some Completed record; else none.
C6_HighlightOfShownMonth ==
    Recomputed =>
        \A d \in ModelDays :
            PageOf(d) = page => dateTextFormat(d) = ClaimedHighlight(d)

\* the same rule over the month of the calendar's selected date, which is
\* where update_calendar_task_highlights takes its visible month from
C6_HighlightOfSelectedMonth ==
    Recomputed =>
        \A d \in ModelDays :
            PageOf(d) = PageOf(current_date) => dateTextFormat(d) = ClaimedHighlight(d)

\* C9: in every reachable state and for every date, the ids of the Active
\* records of that date and the ids of the Completed records of that date
\* are disjoint.
C9_IdsDisjoint ==
    \A d \in ModelDays :
        LET active    == RowsOn(tasks_db, toString(d))
            completed == RowsOn(completed_db, toString(d))
        IN  { active[i].id : i \in 1..Len(active) }
              \cap { completed[i].id : i \in 1..Len(completed) } = {}

\* C9 as amended: within each store no two records share an id, on any date;
\* an Active and a Completed record may share one.
C9_IdsUniquePerStore ==
    /\ \A i, j \in 1..Len(tasks_db.rows) :
          tasks_db.rows[i].id = tasks_db.rows[j].id => i = j
    /\ \A i, j \in 1..Len(completed_db.rows) :
          completed_db.rows[i].id = completed_db.rows[j].id => i = j

\* completing a task has just given it, in Completed, the id that a
\* different task of the same date carries in Active
C9_Witness ==
    /\ running
    /\ last.op = "checkbox_changed"
    /\ last.fault = "none"
    /\ \E i \in 1..Len(tasks_db.rows), j \in 1..Len(completed_db.rows) :
          /\ tasks_db.rows[i].date = completed_db.rows[j].date
          /\ tasks_db.rows[i].id = completed_db.rows[j].id
          /\ tasks_db.rows[i].text # completed_db.rows[j].text
          /\ completed_db.rows[j].text = last.args.text

\* the task of a move is in both stores
InBoth(d, t) == Count(tasks_db, d, t) >= 1 /\ Count(completed_db, d, t) >= 1

\* the task of a move is in neither store
InNeither(d, t) == Count(tasks_db, d, t) = 0 /\ Count(completed_db, d, t) = 0

\* C10: complete is two commits, one per store; when the process dies
\* between them, both outcomes can happen: the task is in both stores
\* (duplicate), and the task is in neither store (loss).
C10_DuplicateAndLoss ==
    \A i \in 1..MaxRows :
        ENABLED CheckboxChangedCrash(i) =>
            LET d == date_to_str(current_date)
                t == task_list[i].text
            IN  /\ ENABLED (/\ CheckboxChangedCrash(i)
                            /\ Count(tasks_db', d, t) >= 1
                            /\ Count(completed_db', d, t) >= 1)
                /\ ENABLED (/\ CheckboxChangedCrash(i)
                            /\ Count(tasks_db', d, t) = 0
                            /\ Count(completed_db', d, t) = 0)

\* C10 as amended: when the process dies between the two commits of a move
\* (complete, or uncomplete), the task is in both stores; it is never in
\* neither.
C10_CrashLeavesDuplicate ==
    last.fault = "crash" =>
        /\ InBoth(last.args.date_str, last.args.text)
        /\ ~InNeither(last.args.date_str, last.args.text)

\* the process has died between the two commits of a complete_task
C10_Witness ==
    /\ ~running
    /\ last.op = "checkbox_changed"
    /\ last.fault = "crash"
    /\ Holds(tasks_db, last.args.task_id, last.args.date_str, last.args.text)
    /\ Count(completed_db, last.args.date_str, last.args.text) = 1

\* C11: for every function of the store (add, add_batch, complete,
\* uncomplete, delete, delete_completed), when sqlite raises at any of its
\* statements, both tables are left exactly as they were before the call.
C11_ErrorNoEffect ==
    [][last'.fault = "error" =>
          (tasks_db' = tasks_db /\ completed_db' = completed_db)]_vars

\* the same for the functions that write one table only, which holds
C11_ErrorNoEffectOneTable ==
    [][(/\ last'.fault = "error"
        /\ last'.op \notin {"complete_task", "uncomplete_task"}) =>
          (tasks_db' = tasks_db /\ completed_db' = completed_db)]_vars

\* C12: add_recurring_tasks_to_db(entries), returning or raising, leaves the
\* tasks table with every entry appended as a new row, in order, or with no
\* new row at all; completed_tasks is not touched.
C12_BatchAllOrNothing ==
    [][last'.op = "add_recurring_tasks_to_db" =>
          LET entries == last'.args.task_entries
          IN  /\ OldTasksKept
              /\ completed_db' = completed_db
              /\ \/ NewTasks = << >>
                 \/ /\ Len(NewTasks) = Len(entries)
                    /\ \A i \in 1..Len(entries) :
                          /\ NewTasks[i].date = entries[i][1]
                          /\ NewTasks[i].text = entries[i][2]
              /\ (last'.fault = "none" => Len(NewTasks) = Len(entries))]_vars

\* a batch of two entries has just failed at its second entry, on a table
\* that holds rows
C12_Witness ==
    /\ last.op = "add_recurring_tasks_to_db"
    /\ last.fault = "error"
    /\ Len(last.args.task_entries) = 2
    /\ last.args.step = 2
    /\ tasks_db.rows # << >>

\* C13: whenever the selected date is before today, add is disabled, every
\* displayed Active record has its checkbox and its delete button disabled
\* and every displayed Completed record can still be toggled back; whenever
\* the selected date is today or later, add and the checkbox and delete
\* button of every displayed Active record are enabled.
C13_PastDatePolicy ==
    running =>
        IF current_date < today
        THEN /\ ~add_enabled
             /\ \A i \in 1..Len(task_list) :
                   IF task_list[i].is_completed
                   THEN task_list[i].checkbox_enabled
                   ELSE ~task_list[i].checkbox_enabled /\ ~task_list[i].delete_enabled
        ELSE /\ add_enabled
             /\ \A i \in 1..Len(task_list) :
                   ~task_list[i].is_completed =>
                       task_list[i].checkbox_enabled /\ task_list[i].delete_enabled

\* C13 as amended: every reload of the list establishes the policy of C13
\* for today as the reload reads it, and the policy then holds for as long
\* as the day does not change; nothing refreshes the enabling at midnight.
C13_PolicyUntilMidnight ==
    [][(/\ running'
        /\ today' = today
        /\ (Recomputed' \/ C13_PastDatePolicy)) => C13_PastDatePolicy']_vars

\* a past date is selected and shows an Active record, which is disabled,
\* and a Completed record; add is disabled
C13_Witness ==
    /\ running
    /\ current_date < today
    /\ ~add_enabled
    /\ \E i, j \in 1..Len(task_list) :
          /\ ~task_list[i].is_completed
          /\ ~task_list[i].checkbox_enabled
          /\ ~task_list[i].delete_enabled
          /\ task_list[j].is_completed
          /\ task_list[j].checkbox_enabled

\* C14: after a highlight recompute, a date carries the overdue or the
\* all-done highlight only if its year and month are the ones the calendar
\* shows; dates with records outside that month carry neither.
C14_OnlyShownMonth ==
    Recomputed =>
        \A d \in ModelDays :
            dateTextFormat(d) \in {"overdue", "all_done"} => PageOf(d) = page

\* the same over the month of the calendar's selected date
C14_OnlySelectedMonth ==
    Recomputed =>
        \A d \in ModelDays :
            dateTextFormat(d) \in {"overdue", "all_done"} => PageOf(d) = PageOf(current_date)

\* what the list shows: for each row its id, its text and its store
Displayed == [i \in 1..Len(task_list) |->
                 <<task_list[i].task_id, task_list[i].text, task_list[i].is_completed>>]

\* the records of a date: the Active ones, then the Completed ones
RecordsOf(qdate) ==
    LET active    == RowsOn(tasks_db, toString(qdate))
        completed == RowsOn(completed_db, toString(qdate))
    IN  [i \in 1..Len(active) |-> <<active[i].id, active[i].text, FALSE>>]
        \o [i \in 1..Len(completed) |-> <<completed[i].id, completed[i].text, TRUE>>]

\* C15: every handler that changes a table (add_task, a toggle, a delete)
\* and every date selection ends with a reload of the current date's list
\* and a highlight recompute; so whenever the widget is idle the list shows
\* the Active records of the current date followed by its Completed records.
C15_ReloadAfterEveryAction ==
    running =>
        /\ task_list = load_tasks_for_date(DB, current_date)
        /\ date_fmt = update_calendar_task_highlights(DB, current_date)
        /\ Displayed = RecordsOf(current_date)

\* a toggle has just ended on a date whose list shows an Active record
\* above a Completed one
C15_Witness ==
    /\ running
    /\ last.op = "checkbox_changed"
    /\ Len(task_list) >= 2
    /\ ~task_list[1].is_completed
    /\ task_list[Len(task_list)].is_completed
    /\ Displayed = RecordsOf(current_date)

\* the row of table t with an id, as a set (empty when there is none)
RowOfId(t, task_id) == { t.rows[i] : i \in { j \in 1..Len(t.rows) : t.rows[j].id = task_id } }

\* C16: no record's date or text ever changes: a row that is in a table
\* before and after a step has its date and text; a toggle takes the record
\* with the displayed id out of its store, that record has the current date
\* and the displayed text, and the other store gets that date and text.
C16_DateAndTextKept ==
    [][/\ \A id \in 1..MaxRows :
             /\ (RowOfId(tasks_db, id) # {} /\ RowOfId(tasks_db', id) # {})
                    => RowOfId(tasks_db', id) = RowOfId(tasks_db, id)
             /\ (RowOfId(completed_db, id) # {} /\ RowOfId(completed_db', id) # {})
                    => RowOfId(completed_db', id) = RowOfId(completed_db, id)
       /\ (last'.op = "checkbox_changed" /\ last'.fault = "none") =>
             LET a == last'.args
             IN  /\ RowOfId(tasks_db, a.task_id)
                       = {[id |-> a.task_id, date |-> toString(current_date), text |-> a.text]}
                 /\ RowOfId(tasks_db', a.task_id) = {}
                 /\ Count(completed_db', toString(current_date), a.text)
                       = Count(completed_db, toString(current_date), a.text) + 1
                 /\ Len(completed_db'.rows) = Len(completed_db.rows) + 1
       /\ (last'.op = "tick_clicked" /\ last'.fault = "none") =>
             LET a == last'.args
             IN  /\ RowOfId(completed_db, a.task_id)
                       = {[id |-> a.task_id, date |-> toString(current_date), text |-> a.text]}
                 /\ RowOfId(completed_db', a.task_id) = {}
                 /\ Count(tasks_db', toString(current_date), a.text) >= 1
                 /\ Len(tasks_db'.rows) =
                       Len(tasks_db.rows)
                         + (IF Count(tasks_db, toString(current_date), a.text) = 0
                            THEN 1 ELSE 0)]_vars

\* a record has just been toggled on a date other than today, selected
\* after records were added from today
C16_Witness ==
    /\ running
    /\ last.op \in {"checkbox_changed", "tick_clicked"}
    /\ last.fault = "none"
    /\ current_date # today
    /\ last.args.date_str = toString(current_date)
    /\ Count(tasks_db, last.args.date_str, last.args.text)
          + Count(completed_db, last.args.date_str, last.args.text) >= 1
    /\ \E d \in ModelDays : d # current_date /\ HasRecord(tasks_db, d)

\* C17: uncomplete_task(id, date, text) called a second time with the same
\* arguments, right after the first call, changes neither table: two calls
\* leave what one call leaves, from every state of the tables.
C17_UncompleteIdempotent ==
    [][(/\ last.op = "uncomplete_task"
        /\ last.fault = "none"
        /\ last'.op = "uncomplete_task"
        /\ last'.fault = "none"
        /\ last'.args = last.args) =>
            (tasks_db' = tasks_db /\ completed_db' = completed_db)]_vars

\* an uncomplete has just been repeated: its id was handed out and is gone
\* from completed_tasks, which holds other rows, and tasks has its one row
\* with that date and text
C17_Witness ==
    /\ last.op = "uncomplete_task"
    /\ last.fault = "none"
    /\ ~last.hit
    /\ last.args.task_id <= completed_db.seq
    /\ last.before = [active |-> 1, completed |-> 0]
    /\ Count(tasks_db, last.args.date_str, last.args.text) = 1
    /\ completed_db.rows # << >>

\* C18: no handler of the widget calls delete_completed_task: the delete
\* button of a Completed record is disabled on every date, a delete click is
\* always on an Active record, and a record leaves completed_tasks only in
\* the uncomplete_task of a tick click.
C18_NoDeleteCompleted ==
    [][/\ \A i \in 1..Len(task_list) :
             task_list[i].is_completed => ~task_list[i].delete_enabled
       /\ last'.op = "delete_clicked" =>
             (~last'.args.is_completed /\ completed_db' = completed_db)
       /\ (Ids(completed_db) \ Ids(completed_db') # {}) =>
             /\ last'.op = "tick_clicked"
             /\ Ids(completed_db) \ Ids(completed_db') = {last'.args.task_id}]_vars

\* a delete click has just removed an Active record from a list that shows
\* a Completed record, on a date before today or not
C18_Witness ==
    /\ running
    /\ last.op = "delete_clicked"
    /\ \E i \in 1..Len(task_list) :
          task_list[i].is_completed /\ ~task_list[i].delete_enabled
    /\ tasks_db.seq > Len(tasks_db.rows)

\* the list shows row as an Active record whose checkbox or delete button is
\* enabled
ShownEnabled(list, row) ==
    \E i \in 1..Len(list) :
        /\ ~list[i].is_completed
        /\ list[i].task_id = row.id
        /\ (list[i].checkbox_enabled \/ list[i].delete_enabled)

\* an add_task with a recurrence, made while the selected date is today or
\* later, creates an Active record on every date of its range that is before
\* today and has a checked weekday
C19_RecurrenceIntoPast ==
    (/\ last'.op = "add_task"
     /\ last'.args.recurring_details # None
     /\ ~(current_date < today)) =>
        LET details == last'.args.recurring_details
            start   == fromString(details.start_date)
            end     == fromString(details.end_date)
        IN  \A d \in start..end :
                (d < today /\ day_name_map[dayOfWeek(d)] \in details.days) =>
                    \E i \in 1..Len(NewTasks) : NewTasks[i].date = toString(d)

\* C19: the past-date policy goes by the selected date only. An
\* add_task with a recurrence, made while the selected date is today or
\* later, creates an Active record on every date of its range that is before
\* today and has a checked weekday; and an Active record on a date before
\* today, however it came to lie before today, is not completed or deleted
\* by any action of the widget while today stays.
C19_PastActiveStays ==
    [][/\ C19_RecurrenceIntoPast
       /\ today' = today =>
             \A i \in 1..Len(tasks_db.rows) :
                 fromString(tasks_db.rows[i].date) < today =>
                     RowOfId(tasks_db', tasks_db.rows[i].id) = {tasks_db.rows[i]}]_vars

\* C19 as amended: an add_task with a recurrence, made while the selected date
\* is today or later, creates an Active record on every date of its range
\* that is before today and has a checked weekday. An Active record created
\* on a date that is before today when it is created (by such a recurrence
\* or by uncompleting a past Completed record) is shown with neither its
\* checkbox nor its delete button enabled; and an Active record of a date
\* before today that is not shown with one of them enabled stays in tasks as
\* it is and stays so shown, in every step, whether the day changes or not.
\* So no action of the widget ever completes or deletes a record created on
\* a past date; only a record whose date became past under a list loaded
\* before midnight can still be completed or deleted, through that list.
C19_PastCreatedStays ==
    [][/\ C19_RecurrenceIntoPast
       /\ \A i \in 1..Len(tasks_db'.rows) :
             (/\ tasks_db'.rows[i].id \notin Ids(tasks_db)
              /\ fromString(tasks_db'.rows[i].date) < today') =>
                 ~ShownEnabled(task_list', tasks_db'.rows[i])
       /\ \A i \in 1..Len(tasks_db.rows) :
             (/\ fromString(tasks_db.rows[i].date) < today
              /\ ~ShownEnabled(task_list, tasks_db.rows[i])) =>
                 /\ RowOfId(tasks_db', tasks_db.rows[i].id) = {tasks_db.rows[i]}
                 /\ ~ShownEnabled(task_list', tasks_db.rows[i])]_vars

\* a date before today is selected whose Completed record a tick click has
\* just moved back: the date shows it as an Active record with its checkbox
\* and delete button disabled, after the day has changed
C19_Witness ==
    /\ running
    /\ last.op = "tick_clicked"
    /\ today > currentDate
    /\ current_date < today
    /\ Count(completed_db, toString(current_date), last.args.text) = 0
    /\ \E i \in 1..Len(tasks_db.rows) :
          /\ tasks_db.rows[i].date = toString(current_date)
          /\ tasks_db.rows[i].text = last.args.text
          /\ ~ShownEnabled(task_list, tasks_db.rows[i])
          /\ \E j \in 1..Len(task_list) :
                /\ ~task_list[j].is_completed
                /\ task_list[j].task_id = tasks_db.rows[i].id

\* the records with a date and text, both stores together
Total(date_str, text) == Count(tasks_db, date_str, text) + Count(completed_db, date_str, text)

\* C20: complete_task(id, date, text) of an Active record (id, date, text)
\* leaves the number of records with that (date, text), Active and Completed
\* together, as it was; uncomplete_task(id, date, text) of a Completed
\* record leaves it as it was when no Active record has that (date, text),
\* and makes it one less when one has: two identical Active tasks become
\* one after one of them is completed and uncompleted.
C20_Conservation ==
    [][(/\ last'.op \in {"complete_task", "uncomplete_task"}
        /\ last'.fault = "none"
        /\ last'.hit) =>
            LET a      == last'.args
                before == last'.before.active + last'.before.completed
                after  == Count(tasks_db', a.date_str, a.text)
                            + Count(completed_db', a.date_str, a.text)
            IN  /\ before = Total(a.date_str, a.text)
                /\ last'.op = "complete_task" => after = before
                /\ (last'.op = "uncomplete_task" /\ last'.before.active = 0) =>
                       after = before
                /\ (last'.op = "uncomplete_task" /\ last'.before.active >= 1) =>
                       after = before - 1]_vars

\* of two identical Active tasks one was completed, and has just been
\* uncompleted: one Active record is left, and no Completed one
C20_Witness ==
    /\ last.op = "uncomplete_task"
    /\ last.fault = "none"
    /\ last.hit
    /\ last.before = [active |-> 1, completed |-> 1]
    /\ tasks_db.seq = 2
    /\ Count(tasks_db, last.args.date_str, last.args.text) = 1
    /\ Count(completed_db, last.args.date_str, last.args.text) = 0

=============================================================================
